---- MODULE Spec2Model ----
(***************************************************************************)
(* Model of src/server.js: an Express relay that validates a JSON payload, *)
(* builds a prompt from optional student fields, calls the generative      *)
(* model once and maps the outcome to an HTTP response.                    *)
(*                                                                         *)
(* Strings are TLA+ strings holding the text the code builds; a JavaScript *)
(* value that is not a string (undefined, null) is a sentinel.             *)
(***************************************************************************)
EXTENDS Integers, Sequences, FiniteSets, TLC

(***************************************************************************)
(* Bounds                                                                  *)
(***************************************************************************)
\* number of requests that may be in flight together
MaxReqs == 2

(***************************************************************************)
(* JavaScript values                                                       *)
(***************************************************************************)
\* the value of a property that is not there
Undefined == "<undefined>"

\* ToBoolean on the values of the model: undefined and "" are falsy
Truthy(v) == v # Undefined /\ v # ""

\* `${v}` in a template literal
Str(v) == IF v = Undefined THEN "undefined" ELSE v

\* String.prototype.includes
Includes(s, t) ==
    \E i \in 1..(Len(s) - Len(t) + 1) : SubSeq(s, i, i + Len(t) - 1) = t

\* s.substring(0, n)
Substring0(s, n) == SubSeq(s, 1, IF Len(s) < n THEN Len(s) ELSE n)

RECURSIVE Concat(_)
\* the string a sequence of `prompt +=` operands adds up to
Concat(parts) ==
    IF parts = <<>> THEN "" ELSE Head(parts) \o Concat(Tail(parts))

(***************************************************************************)
(* Context: the student record of the payload                              *)
(***************************************************************************)
\* a context that is a JSON object
ObjectContext(f) ==
    [kind |-> "object", name |-> f.name, gpa |-> f.gpa, major |-> f.major,
     goals |-> f.goals, achievements |-> f.achievements,
     involvement |-> f.involvement, financialNeed |-> f.financialNeed,
     existingText |-> f.existingText]

\* a context that is no object: the key is missing (undefined) or null
NonObjectContext(k) ==
    [kind |-> k, name |-> Undefined, gpa |-> Undefined, major |-> Undefined,
     goals |-> Undefined, achievements |-> Undefined, involvement |-> Undefined,
     financialNeed |-> Undefined, existingText |-> Undefined]

\* ToBoolean of the context value
TruthyContext(context) == context.kind = "object"

(***************************************************************************)
(* Prompt builders.  Each returns the sequence of strings the code appends *)
(* to `prompt`, in order; the prompt is their concatenation.               *)
(***************************************************************************)
\* ContextLine writing a placeholder for a field that is not populated
ContextLinePlaceholder(label, v) ==
    <<"- " \o label \o ": " \o (IF Truthy(v) THEN v ELSE "N/A") \o "\n">>

\* one `if (context.f) prompt += "- Label: ${context.f}\n"` statement
ContextLine(label, v) ==
    IF Truthy(v) THEN <<"- " \o label \o ": " \o v \o "\n">> ELSE <<>>

SectionSentence(section) ==
    IF section = "Introduction" THEN
        <<" The introduction should briefly state the student's name, the scholarship they are applying for, and their primary field of study or career aspiration.">>
    ELSE IF section = "Academic Achievements" THEN
        <<" Highlight key academic successes, mentioning the GPA if relevant, and connect them to the student's suitability for the scholarship.">>
    ELSE IF section = "Career Goals" THEN
        <<" Describe the student's future aspirations and how this scholarship will help achieve them.">>
    ELSE IF section = "Extracurricular Activities" THEN
        <<" Mention significant activities or involvement and relate them to the student's character or goals.">>
    ELSE IF section = "Financial Need" THEN
        <<" Briefly explain the student's financial situation and why the scholarship support is needed, maintaining a respectful tone.">>
    ELSE IF section = "Conclusion" THEN
        <<" Summarize the student's interest, reiterate their suitability, and thank the foundation for their consideration. Keep it brief and professional.">>
    ELSE <<>>

GenerateParts(section, context) ==
    <<"You are an AI assistant helping a student write a scholarship application letter for the A.J. Wang Foundation Scholarship.\n\nGenerate a paragraph for the '"
        \o Str(section) \o "' section of the letter based on the following student information:\n">>
    \o ContextLine("Student Name", context.name)
    \o ContextLine("GPA", context.gpa)
    \o ContextLine("Major", context.major)
    \o ContextLine("Career Goals", context.goals)
    \o ContextLine("Key Achievements", context.achievements)
    \o ContextLine("Extracurricular Involvement", context.involvement)
    \o ContextLine("Financial Need Context", context.financialNeed)
    \o <<"\nPlease generate a concise and relevant paragraph suitable for the '"
        \o Str(section) \o "' section. Focus on being helpful and constructive.">>
    \o SectionSentence(section)

constructGeneratePrompt(section, context) == Concat(GenerateParts(section, context))

ImproveParts(section, context) ==
    <<"You are an AI assistant helping a student improve a section of their scholarship application letter for the A.J. Wang Foundation Scholarship.\n\nThe student has provided the following text for the '"
        \o Str(section) \o "' section:\n\"" \o Str(context.existingText)
        \o "\"\n\nPlease improve this text. Focus on clarity, conciseness, impact, and grammar, while maintaining the student's original voice and intent. Provide only the improved text as the output.\n\nHere is some additional context about the student (use this to inform the improvements):\n">>
    \o ContextLine("Student Name", context.name)
    \o ContextLine("GPA", context.gpa)
    \o ContextLine("Major", context.major)
    \o ContextLine("Career Goals", context.goals)
    \o ContextLine("Key Achievements", context.achievements)
    \o ContextLine("Extracurricular Involvement", context.involvement)
    \o ContextLine("Financial Need Context", context.financialNeed)
    \o <<"\nImproved text for the '" \o Str(section) \o "' section:">>

constructImprovePrompt(section, context) == Concat(ImproveParts(section, context))

FeedbackParts(section, context) ==
    <<"You are an AI assistant providing constructive feedback on a section of a student's scholarship application letter for the A.J. Wang Foundation Scholarship.\n\nThe student has provided the following text for the '"
        \o Str(section) \o "' section:\n\"" \o Str(context.existingText)
        \o "\"\n\nPlease provide specific, actionable feedback on how the student can improve this section. Focus on clarity, impact, relevance to the scholarship, and overall effectiveness. Present the feedback as a bulleted list.\n\nHere is some additional context about the student (use this to inform the feedback):\n">>
    \o ContextLine("Student Name", context.name)
    \o ContextLine("GPA", context.gpa)
    \o ContextLine("Major", context.major)
    \o ContextLine("Career Goals", context.goals)
    \o ContextLine("Key Achievements", context.achievements)
    \o ContextLine("Extracurricular Involvement", context.involvement)
    \o ContextLine("Financial Need Context", context.financialNeed)
    \o <<"\nConstructive feedback for the '" \o Str(section) \o "' section (as a bulleted list):">>

constructFeedbackPrompt(section, context) == Concat(FeedbackParts(section, context))

\* the builder of the second registration of POST /api/generate
LegacyParts(section, context) ==
    <<"You are an AI assistant helping a student write a scholarship application letter for the A.J. Wang Foundation Scholarship.\n\nGenerate a paragraph for the '"
        \o Str(section) \o "' section of the letter based on the following student information:\n">>
    \o ContextLine("Student Name", context.name)
    \o ContextLine("GPA", context.gpa)
    \o ContextLine("Major", context.major)
    \o ContextLine("Career Goals", context.goals)
    \o ContextLine("Key Achievements", context.achievements)
    \o ContextLine("Extracurricular Involvement", context.involvement)
    \o ContextLine("Financial Need Context", context.financialNeed)
    \o (IF Truthy(context.existingText)
        THEN <<"\nConsider the existing text in this section (if any):\n\""
                \o Str(context.existingText) \o "\"\n">>
        ELSE <<>>)
    \o <<"\nPlease generate a concise and relevant paragraph suitable for the '"
        \o Str(section) \o "' section. Focus on being helpful and constructive.">>
    \o SectionSentence(section)

constructPrompt(section, context) == Concat(LegacyParts(section, context))

(***************************************************************************)
(* State                                                                   *)
(***************************************************************************)
VARIABLES
    env,        \* process.env.GEMINI_API_KEY
    proc,       \* where the top-level script is: start, checked, configured, listening, exited
    client,     \* `model`, the one gateway client of the process
    console,    \* the lines the top-level script wrote
    req,        \* per request: the handler invocation (its locals, its response, its log lines)
    result,     \* the binding `result` of the handler invocations, by slot
    reply,      \* per request: what the provider answered to the call the request made
    bench       \* a prompt builder applied on its own: section, context, parts

vars == <<env, proc, client, console, req, result, reply, bench>>

Reqs == 1..MaxReqs

(***************************************************************************)
(* Routes, in the order the file registers them                            *)
(***************************************************************************)
Routes ==
    <<[path |-> "/api/generate", handler |-> "handleApiCall", responseKey |-> "generatedText"],
      [path |-> "/api/improve",  handler |-> "handleApiCall", responseKey |-> "improvedText"],
      [path |-> "/api/feedback", handler |-> "handleApiCall", responseKey |-> "feedbackText"],
      [path |-> "/api/generate", handler |-> "inline",        responseKey |-> "generatedText"]>>

\* the promptConstructor argument each route passes
promptConstructor(route, section, context) ==
    CASE route = 1 -> constructGeneratePrompt(section, context)
      [] route = 2 -> constructImprovePrompt(section, context)
      [] route = 3 -> constructFeedbackPrompt(section, context)
      [] route = 4 -> constructPrompt(section, context)

(***************************************************************************)
(* Responses                                                               *)
(***************************************************************************)
NoBody == [k \in {} |-> ""]

\* a response nothing was sent on yet: Express starts with status 200
Unsent == [sent |-> FALSE, status |-> 200, body |-> NoBody]

\* res.status(code).json(body)
Json(code, body) == [sent |-> TRUE, status |-> code, body |-> body]

\* the logging steps of a handler
LogSteps == {"request", "preview", "success", "error"}

\* the exception a logging step throws when it fails
LogError == [message |-> "write EPIPE"]

\* the length of the prompt preview that is logged
PreviewLen == 200

IdleReq ==
    [pc |-> "idle", route |-> 0, body |-> [section |-> Undefined, context |-> NonObjectContext("undefined")],
     throws |-> {}, prompt |-> Undefined, calls |-> 0, res |-> Unsent, logs |-> <<>>]

NoResult == [kind |-> "none"]

(***************************************************************************)
(* handleApiCall, by the segments its awaits cut it into                   *)
(***************************************************************************)
\* RateLimited with `===` for includes
RateLimitedExact(error) == error.message = "429"

\* line 136: error.message && error.message.includes("429")
RateLimited(error) == Truthy(error.message) /\ Includes(error.message, "429")

\* CatchSegment calling the gateway a second time after a first failure
CatchSegmentRetry(st, error) ==
    [st EXCEPT !.pc = "awaitGenerate", !.calls = @ + 1]

\* lines 133-141: the catch block
CatchSegment(st, error) ==
    LET responseKey == Routes[st.route].responseKey IN
    IF "error" \in st.throws
    THEN [st EXCEPT !.pc = "rejected"]
    ELSE [st EXCEPT
            !.pc = "done",
            !.logs = Append(@, "Error calling Gemini API for " \o responseKey \o ": " \o Str(error.message)),
            !.res = IF RateLimited(error)
                    THEN Json(429, [error |-> "Rate limit exceeded. Please try again later."])
                    ELSE Json(500, [error |-> "Failed to generate " \o responseKey \o " from AI model."])]

\* ValidationFailure with `&&` for `||` in the first test
ValidationFailureBoth(responseKey, body) ==
    IF ~Truthy(body.section) /\ ~TruthyContext(body.context)
    THEN "Missing 'section' or 'context' in request body"
    ELSE IF responseKey \in {"improvedText", "feedbackText"} /\ ~Truthy(body.context.existingText)
    THEN "Missing 'existingText' in context for "
            \o (IF responseKey = "improvedText" THEN "improve" ELSE "feedback") \o " action"
    ELSE Undefined

\* ValidationFailure asking every action for existingText
ValidationFailureAllActions(responseKey, body) ==
    IF ~Truthy(body.section) \/ ~TruthyContext(body.context)
    THEN "Missing 'section' or 'context' in request body"
    ELSE IF ~Truthy(body.context.existingText)
    THEN "Missing 'existingText' in context for "
            \o (IF responseKey = "improvedText" THEN "improve" ELSE "feedback") \o " action"
    ELSE Undefined

\* lines 113-119: the message of the validation that fails, or Undefined
ValidationFailure(responseKey, body) ==
    IF ~Truthy(body.section) \/ ~TruthyContext(body.context)
    THEN "Missing 'section' or 'context' in request body"
    ELSE IF responseKey \in {"improvedText", "feedbackText"} /\ ~Truthy(body.context.existingText)
    THEN "Missing 'existingText' in context for "
            \o (IF responseKey = "improvedText" THEN "improve" ELSE "feedback") \o " action"
    ELSE Undefined

\* lines 111-126: from the call of the handler to its first await
StartSegment(st) ==
    LET responseKey == Routes[st.route].responseKey
        section == st.body.section
        context == st.body.context
        failure == ValidationFailure(responseKey, st.body)
        prompt == promptConstructor(st.route, section, context)
        logged1 == [st EXCEPT !.logs = Append(@, "Received request for action '"
                                \o responseKey \o "' on section: " \o section)]
        built == [logged1 EXCEPT !.prompt = prompt]
        logged2 == [built EXCEPT !.logs = Append(@, "Generated Prompt: "
                                \o Substring0(prompt, PreviewLen) \o "...")]
    IN  IF failure # Undefined
        THEN [st EXCEPT !.pc = "done", !.res = Json(400, [error |-> failure])]
        ELSE IF "request" \in st.throws THEN CatchSegment(st, LogError)
        ELSE IF "preview" \in st.throws THEN CatchSegment(built, LogError)
        ELSE [logged2 EXCEPT !.pc = "awaitGenerate", !.calls = @ + 1]

\* SuccessBody with the key of the generate action for every action
SuccessBodyFixedKey(responseKey, text) == [generatedText |-> text]

\* line 131: res.json({ [responseKey]: text })
SuccessBody(responseKey, text) == (responseKey :> text)

\* lines 127-131: from the result of the call to the response
TextSegment(st, res) ==
    LET responseKey == Routes[st.route].responseKey IN
    IF res.kind = "blocked" THEN CatchSegment(st, res.error)
    ELSE IF "success" \in st.throws THEN CatchSegment(st, LogError)
    ELSE [st EXCEPT
            !.pc = "done",
            !.logs = Append(@, "Successfully generated " \o responseKey
                                \o " for section: " \o st.body.section),
            !.res = Json(200, SuccessBody(responseKey, res.text))]

(***************************************************************************)
(* The inline handler of the second registration of POST /api/generate     *)
(***************************************************************************)
\* lines 244-252
InlineCatchSegment(st, error) ==
    IF "error" \in st.throws
    THEN [st EXCEPT !.pc = "rejected"]
    ELSE [st EXCEPT
            !.pc = "done",
            !.logs = Append(@, "Error calling Gemini API: " \o Str(error.message)),
            !.res = IF RateLimited(error)
                    THEN Json(429, [error |-> "Rate limit exceeded. Please try again later."])
                    ELSE Json(500, [error |-> "Failed to generate text from AI model."])]

\* lines 226-237
InlineStartSegment(st) ==
    LET section == st.body.section
        context == st.body.context
        prompt == constructPrompt(section, context)
        logged1 == [st EXCEPT !.logs = Append(@, "Received request for section: " \o section)]
        built == [logged1 EXCEPT !.prompt = prompt]
        logged2 == [built EXCEPT !.logs = Append(@, "Generated Prompt: "
                                \o Substring0(prompt, PreviewLen) \o "...")]
    IN  IF ~Truthy(section) \/ ~TruthyContext(context)
        THEN [st EXCEPT !.pc = "done",
                        !.res = Json(400, [error |-> "Missing 'section' or 'context' in request body"])]
        ELSE IF "request" \in st.throws THEN InlineCatchSegment(st, LogError)
        ELSE IF "preview" \in st.throws THEN InlineCatchSegment(built, LogError)
        ELSE [logged2 EXCEPT !.pc = "awaitGenerate", !.calls = @ + 1]

\* lines 238-242
InlineTextSegment(st, res) ==
    IF res.kind = "blocked" THEN InlineCatchSegment(st, res.error)
    ELSE IF "success" \in st.throws THEN InlineCatchSegment(st, LogError)
    ELSE [st EXCEPT
            !.pc = "done",
            !.logs = Append(@, "Successfully generated text for section: " \o st.body.section),
            !.res = Json(200, [generatedText |-> res.text])]

(***************************************************************************)
(* Inputs                                                                  *)
(***************************************************************************)
NoProfile ==
    [name |-> Undefined, gpa |-> Undefined, major |-> Undefined, goals |-> Undefined,
     achievements |-> Undefined, involvement |-> Undefined, financialNeed |-> Undefined,
     existingText |-> Undefined]

\* the values of `section` in a payload: missing, empty, a section name
Sections == {Undefined, "", "Introduction"}

\* the values of `context` in a payload
Contexts ==
    {NonObjectContext("undefined"), NonObjectContext("null")}
    \cup {ObjectContext([NoProfile EXCEPT !.name = "Ann", !.existingText = e]) :
            e \in {Undefined, "My old text."}}

Bodies == [section : Sections, context : Contexts]

\* errors the provider's client library throws: a rate limit, another
\* failure, a value with no message
Errors ==
    {[message |-> "[429 Too Many Requests] Resource has been exhausted"],
     [message |-> "fetch failed"],
     [message |-> Undefined]}

\* what the provider answers to one generateContent call: it rejects, it
\* resolves with a response whose text() returns, or with one whose text() throws
Replies ==
    {[kind |-> "text", text |-> t] : t \in {"", "Thank you."}}
    \cup {[kind |-> "reject", error |-> e] : e \in Errors}
    \cup {[kind |-> "blocked", error |-> [message |-> "Candidate was blocked due to SAFETY"]]}

(***************************************************************************)
(* Top-level script                                                        *)
(***************************************************************************)
\* KeyMissing with the check left out
KeyNeverMissing(key) == FALSE

\* line 7: !process.env.GEMINI_API_KEY
KeyMissing(key) == ~Truthy(key)

\* lines 7-10
CheckKey ==
    /\ proc = "start"
    /\ IF KeyMissing(env)
       THEN /\ console' = Append(console, "Error: GEMINI_API_KEY environment variable is not set.")
            /\ proc' = "exited"
       ELSE /\ proc' = "checked"
            /\ UNCHANGED console
    /\ UNCHANGED <<env, client, req, result, reply, bench>>

\* lines 13-14, and the registration of the routes
CreateClient ==
    /\ proc = "checked"
    /\ client' = "gemini-1.5-flash-latest"
    /\ proc' = "configured"
    /\ UNCHANGED <<env, console, req, result, reply, bench>>

\* lines 158-160
Listen ==
    /\ proc = "configured"
    /\ proc' = "listening"
    /\ console' = Append(console, "Scholarship AI backend listening on port 3000")
    /\ UNCHANGED <<env, client, req, result, reply, bench>>

(***************************************************************************)
(* Requests                                                                *)
(***************************************************************************)
\* ResultSlot when `result` is one variable of the module, not a local
ResultSlotShared(r) == 1

\* the slot that holds the `result` of request r: a const local to the invocation
ResultSlot(r) == r

Catch(st, error) ==
    IF Routes[st.route].handler = "inline"
    THEN InlineCatchSegment(st, error) ELSE CatchSegment(st, error)

\* a request arrives on one of the three routes that use handleApiCall
Arrive(r, route, body, throws) ==
    /\ proc = "listening"
    /\ req[r].pc = "idle"
    /\ Routes[route].handler = "handleApiCall"
    /\ req' = [req EXCEPT ![r] =
                StartSegment([IdleReq EXCEPT !.route = route, !.body = body, !.throws = throws])]
    /\ UNCHANGED <<env, proc, client, console, result, reply, bench>>

\* a request arrives and the second registration of POST /api/generate answers it
ArriveInline(r, body, throws) ==
    /\ proc = "listening"
    /\ req[r].pc = "idle"
    /\ req' = [req EXCEPT ![r] =
                InlineStartSegment([IdleReq EXCEPT !.route = 4, !.body = body, !.throws = throws])]
    /\ UNCHANGED <<env, proc, client, console, result, reply, bench>>

\* console.log and console.error do not throw
HandleApiCall(r) ==
    \E route \in 1..3, body \in Bodies : Arrive(r, route, body, {})

InlineGenerate(r) ==
    \E body \in Bodies : ArriveInline(r, body, {})

\* model.generateContent(prompt) rejects: the await throws into the catch block
GenerateContentRejects(r) ==
    \E rep \in Replies :
        /\ rep.kind = "reject"
        /\ req[r].pc = "awaitGenerate"
        /\ reply' = [reply EXCEPT ![r] = rep]
        /\ req' = [req EXCEPT ![r] = Catch(@, rep.error)]
        /\ UNCHANGED <<env, proc, client, console, result, bench>>

\* model.generateContent(prompt) resolves: `result` is bound, result.response is awaited
GenerateContentResolves(r) ==
    \E rep \in Replies :
        /\ rep.kind # "reject"
        /\ req[r].pc = "awaitGenerate"
        /\ reply' = [reply EXCEPT ![r] = rep]
        /\ result' = [result EXCEPT ![ResultSlot(r)] = rep]
        /\ req' = [req EXCEPT ![r].pc = "awaitResponse"]
        /\ UNCHANGED <<env, proc, client, console, bench>>

\* result.response is there: response.text(), then the response to the client
ResponseAwaited(r) ==
    /\ req[r].pc = "awaitResponse"
    /\ req' = [req EXCEPT ![r] =
                IF Routes[@.route].handler = "inline"
                THEN InlineTextSegment(@, result[ResultSlot(r)])
                ELSE TextSegment(@, result[ResultSlot(r)])]
    /\ UNCHANGED <<env, proc, client, console, result, reply, bench>>

(***************************************************************************)
(* The server                                                              *)
(***************************************************************************)
BenchIdle ==
    [builder |-> "none", section |-> "Introduction",
     context |-> ObjectContext(NoProfile), parts |-> <<>>]

Init ==
    /\ env \in {Undefined, "", "AIza-key"}
    /\ proc = "start"
    /\ client = "none"
    /\ console = <<>>
    /\ req = [r \in Reqs |-> IdleReq]
    /\ result = [r \in Reqs |-> NoResult]
    /\ reply = [r \in Reqs |-> NoResult]
    /\ bench = BenchIdle

Next ==
    \/ CheckKey
    \/ CreateClient
    \/ Listen
    \/ \E r \in Reqs : HandleApiCall(r)
    \/ \E r \in Reqs : InlineGenerate(r)
    \/ \E r \in Reqs : GenerateContentRejects(r)
    \/ \E r \in Reqs : GenerateContentResolves(r)
    \/ \E r \in Reqs : ResponseAwaited(r)

Spec == Init /\ [][Next]_vars

(***************************************************************************)
(* The server when a logging step may throw                                *)
(***************************************************************************)
\* a payload that passes every validation
FullBody ==
    [section |-> "Introduction",
     context |-> ObjectContext([NoProfile EXCEPT !.name = "Ann", !.existingText = "My old text."])]

HandleApiCallLogging(r) ==
    \E route \in 1..3, throws \in SUBSET LogSteps : Arrive(r, route, FullBody, throws)

InlineGenerateLogging(r) ==
    \E throws \in SUBSET LogSteps : ArriveInline(r, FullBody, throws)

NextLog ==
    \/ CheckKey
    \/ CreateClient
    \/ Listen
    \/ \E r \in Reqs : HandleApiCallLogging(r)
    \/ \E r \in Reqs : InlineGenerateLogging(r)
    \/ \E r \in Reqs : GenerateContentRejects(r)
    \/ \E r \in Reqs : GenerateContentResolves(r)
    \/ \E r \in Reqs : ResponseAwaited(r)

SpecLog == Init /\ [][NextLog]_vars

(***************************************************************************)
(* The prompt builders on their own                                        *)
(***************************************************************************)
FieldValues(sample) == {Undefined, "", sample}

BenchContexts ==
    {ObjectContext([name |-> a, gpa |-> b, major |-> c, goals |-> d, achievements |-> e,
                    involvement |-> f, financialNeed |-> g, existingText |-> x]) :
        a \in FieldValues("Ann"), b \in FieldValues("3.9"), c \in FieldValues("Biology"),
        d \in FieldValues("Become a doctor"), e \in FieldValues("Dean's List"),
        f \in FieldValues("Chess club"), g \in FieldValues("First-generation student"),
        x \in {Undefined, "My old text."}}

BenchSections == {"Introduction", "Hobbies"}

InitBench ==
    /\ env = "AIza-key"
    /\ proc = "start"
    /\ client = "none"
    /\ console = <<>>
    /\ req = [r \in Reqs |-> IdleReq]
    /\ result = [r \in Reqs |-> NoResult]
    /\ reply = [r \in Reqs |-> NoResult]
    /\ bench \in [builder : {"none"}, section : BenchSections,
                  context : BenchContexts, parts : {<<>>}]

Build(builder, parts) ==
    /\ bench.builder = "none"
    /\ bench' = [bench EXCEPT !.builder = builder, !.parts = parts]
    /\ UNCHANGED <<env, proc, client, console, req, result, reply>>

BuildGenerate == Build("generate", GenerateParts(bench.section, bench.context))

BuildImprove == Build("improve", ImproveParts(bench.section, bench.context))

BuildFeedback == Build("feedback", FeedbackParts(bench.section, bench.context))

BuildInline == Build("inline", LegacyParts(bench.section, bench.context))

NextBench == BuildGenerate \/ BuildImprove \/ BuildFeedback \/ BuildInline

SpecBench == InitBench /\ [][NextBench]_vars

(***************************************************************************)
(* Properties                                                              *)
(***************************************************************************)
\* the property is there at all (its key is in the JSON object)
Present(v) == v # Undefined

\* the handler of request r was called
Called(r) == req[r].pc # "idle"

\* the path request r was sent to
PathOf(r) == Routes[req[r].route].path

\* the response of request r is an error response: sent, body {error: ...}
ErrorResponse(r, code) ==
    /\ req[r].res.sent
    /\ req[r].res.status = code
    /\ DOMAIN req[r].res.body = {"error"}

\* the key of the success body, from the path of the action
ActionKey(path) ==
    CASE path = "/api/generate" -> "generatedText"
      [] path = "/api/improve"  -> "improvedText"
      [] path = "/api/feedback" -> "feedbackText"

\* C1: on every route, a request whose body has no `section` or no `context`
\* is answered 400 with a body whose only key is `error`, whatever the rest
\* of the payload is.
C1_MissingFieldsRejected ==
    \A r \in Reqs :
        (Called(r) /\ (req[r].body.section = Undefined
                        \/ req[r].body.context.kind = "undefined"))
            => ErrorResponse(r, 400)

\* a request to /api/improve with a section but no context was answered 400
C1_Witness ==
    \E r \in Reqs :
        /\ Called(r)
        /\ PathOf(r) = "/api/improve"
        /\ req[r].body.section = "Introduction"
        /\ req[r].body.context.kind = "undefined"
        /\ ErrorResponse(r, 400)

\* the request passed validation: the prompt was built and the gateway called
Proceeded(r) ==
    /\ req[r].prompt # Undefined
    /\ req[r].calls = 1
    /\ ~(req[r].res.sent /\ req[r].res.status = 400)

\* C2 as stated: with `section` and `context` present (their keys are in the
\* body) and context.existingText absent, improve and feedback answer 400
\* and generate passes validation, builds the prompt and calls the gateway.
C2_PresentFields ==
    \A r \in Reqs :
        (/\ Called(r)
         /\ Present(req[r].body.section)
         /\ req[r].body.context.kind # "undefined"
         /\ req[r].body.context.existingText = Undefined)
            => IF PathOf(r) = "/api/generate" THEN Proceeded(r) ELSE ErrorResponse(r, 400)

\* C2 amended: with `section` a non-empty string and `context` an object
\* (both truthy) and context.existingText absent, improve and feedback
\* answer 400 and generate passes validation, builds the prompt and calls
\* the gateway.
C2_TruthyFields ==
    \A r \in Reqs :
        (/\ Called(r)
         /\ Truthy(req[r].body.section)
         /\ req[r].body.context.kind = "object"
         /\ req[r].body.context.existingText = Undefined)
            => IF PathOf(r) = "/api/generate" THEN Proceeded(r) ELSE ErrorResponse(r, 400)

\* the same payload, without existingText, went to generate through
\* handleApiCall and to improve: the first proceeded, the second got 400
C2_Witness ==
    \E r, s \in Reqs :
        /\ req[r].route = 1 /\ req[s].route = 2
        /\ req[r].body = req[s].body
        /\ Truthy(req[r].body.section)
        /\ req[r].body.context.kind = "object"
        /\ req[r].body.context.existingText = Undefined
        /\ Proceeded(r)
        /\ ErrorResponse(s, 400)

\* the call request r made to the gateway failed
GatewayFailed(r) == reply[r].kind \in {"reject", "blocked"}

\* C3: when the gateway call of a validated request fails, the response has
\* status 429 if the message of the failure contains "429" and 500 if not,
\* and its body has the key `error` in both cases.
C3_FailureStatus ==
    \A r \in Reqs :
        (req[r].pc = "done" /\ GatewayFailed(r))
            => IF Present(reply[r].error.message) /\ Includes(reply[r].error.message, "429")
               THEN ErrorResponse(r, 429)
               ELSE ErrorResponse(r, 500)

\* a rate-limit failure answered 429 while another failure answered 500
C3_Witness ==
    \E r, s \in Reqs :
        /\ req[r].pc = "done" /\ reply[r].kind = "reject"
        /\ reply[r].error.message = "[429 Too Many Requests] Resource has been exhausted"
        /\ ErrorResponse(r, 429)
        /\ req[s].pc = "done" /\ reply[s].kind = "reject"
        /\ reply[s].error.message = "fetch failed"
        /\ ErrorResponse(s, 500)

\* C4: when the gateway call of a validated request succeeds, the response
\* has status 200 and a body with exactly one key, the one of the action,
\* whose value is the text the gateway returned.
C4_SuccessBody ==
    \A r \in Reqs :
        (req[r].pc = "done" /\ reply[r].kind = "text")
            => /\ req[r].res.sent
               /\ req[r].res.status = 200
               /\ DOMAIN req[r].res.body = {ActionKey(PathOf(r))}
               /\ req[r].res.body[ActionKey(PathOf(r))] = reply[r].text

\* an improve request and a feedback request were answered 200 with the text
C4_Witness ==
    \E r, s \in Reqs :
        /\ req[r].pc = "done" /\ req[s].pc = "done"
        /\ PathOf(r) = "/api/improve" /\ PathOf(s) = "/api/feedback"
        /\ req[r].res.body = [improvedText |-> "Thank you."]
        /\ req[s].res.body = [feedbackText |-> "Thank you."]
        /\ req[r].res.status = 200 /\ req[s].res.status = 200

\* C5: with the credential absent from the environment the process only
\* logs the fatal line and exits: the client is never created, the server
\* never listens and no request is ever handled.
C5_NoStartWithoutKey ==
    env = Undefined =>
        /\ proc \in {"start", "exited"}
        /\ client = "none"
        /\ \A r \in Reqs : req[r] = IdleReq
        /\ proc = "exited" =>
            console = <<"Error: GEMINI_API_KEY environment variable is not set.">>

\* the process has exited on the missing credential
C5_Witness ==
    /\ env = Undefined
    /\ proc = "exited"
    /\ Len(console) = 1
    /\ client = "none"

\* C6 as stated: the prompt built for the generate action does not depend on
\* context.existingText: two generate requests with the same section whose
\* contexts differ at most in existingText have the same prompt.
C6_GenerateIgnoresExistingText ==
    \A r, s \in Reqs :
        (/\ Called(r) /\ Called(s)
         /\ PathOf(r) = "/api/generate" /\ PathOf(s) = "/api/generate"
         /\ req[r].prompt # Undefined /\ req[s].prompt # Undefined
         /\ req[r].body.section = req[s].body.section
         /\ [req[r].body.context EXCEPT !.existingText = Undefined]
                = [req[s].body.context EXCEPT !.existingText = Undefined])
            => req[r].prompt = req[s].prompt

\* C7: the gateway is called at most once for a request: not at all when
\* the request is answered 400, once when it passes validation, and a
\* failed call is followed by the error response, not by a second call.
C7_NoRetry ==
    \A r \in Reqs :
        /\ req[r].calls <= 1
        /\ Called(r) =>
            IF req[r].res.sent /\ req[r].res.status = 400
            THEN req[r].calls = 0
            ELSE req[r].calls = 1
        /\ reply[r].kind = "reject" =>
            /\ req[r].pc = "done"
            /\ req[r].res.sent
            /\ req[r].res.status \in {429, 500}

\* one request was rejected with 400 and no call, another failed at the
\* gateway after its one call and was answered 500
C7_Witness ==
    \E r, s \in Reqs :
        /\ Called(r) /\ ErrorResponse(r, 400) /\ req[r].calls = 0
        /\ req[s].pc = "done" /\ reply[s].kind = "reject"
        /\ ErrorResponse(s, 500) /\ req[s].calls = 1

\* the handler of request r has run to its end
Finished(r) == req[r].pc \in {"done", "rejected"}

\* C8 as stated: the response does not depend on whether the logging steps
\* succeed or throw: a finished request has the status and body of a
\* finished request with the same route, the same payload and the same
\* gateway outcome whose logging steps all succeeded.
C8_LoggingNeverAffectsResponse ==
    \A r, s \in Reqs :
        (/\ Finished(r) /\ Finished(s)
         /\ req[r].throws = {}
         /\ req[r].route = req[s].route
         /\ req[r].body = req[s].body
         /\ reply[r] = reply[s])
            => req[r].res = req[s].res

\* the lines of the context block among the parts of a prompt
IsContextLine(part) == Len(part) >= 2 /\ SubSeq(part, 1, 2) = "- "

ContextLines(parts) == SelectSeq(parts, IsContextLine)

ProfileFields ==
    <<"name", "gpa", "major", "goals", "achievements", "involvement", "financialNeed">>

\* the populated fields of a context, in the order name, GPA, major, goals,
\* achievements, involvement, financialNeed
Populated(context) ==
    LET IsPopulated(f) == context[f] # Undefined /\ context[f] # ""
    IN  SelectSeq(ProfileFields, IsPopulated)

\* C9: each of the three builders emits one line per populated field, in
\* the order name, GPA, major, goals, achievements, involvement,
\* financialNeed, and nothing for a field that is not populated.
C9_ContextLinesInOrder ==
    bench.builder \in {"generate", "improve", "feedback"} =>
        LET lines == ContextLines(bench.parts)
            fields == Populated(bench.context)
        IN  /\ Len(lines) = Len(fields)
            /\ \A i \in 1..Len(fields) :
                Includes(lines[i], ": " \o bench.context[fields[i]] \o "\n")

\* the improve builder ran on a context with name, goals and financialNeed
\* populated, GPA empty and the rest absent, and emitted three lines
C9_Witness ==
    /\ bench.builder = "improve"
    /\ Populated(bench.context) = <<"name", "goals", "financialNeed">>
    /\ bench.context.gpa = ""
    /\ bench.context.major = Undefined
    /\ Len(ContextLines(bench.parts)) = 3

\* a request can always take its next step, whatever the others are doing
NotBlocked ==
    \A r \in Reqs :
        /\ (proc = "listening" /\ req[r].pc = "idle") => ENABLED HandleApiCall(r)
        /\ req[r].pc = "awaitGenerate" =>
            (ENABLED GenerateContentResolves(r) /\ ENABLED GenerateContentRejects(r))
        /\ req[r].pc = "awaitResponse" => ENABLED ResponseAwaited(r)

\* the result a handler holds is the answer to its own call
OwnResult ==
    \A r \in Reqs :
        /\ req[r].pc = "awaitResponse" => result[r] = reply[r]
        /\ (req[r].pc = "done" /\ reply[r].kind = "text") =>
            \E k \in DOMAIN req[r].res.body : req[r].res.body[k] = reply[r].text

\* a step is the step of one request and leaves the others as they were
OneRequestPerStep ==
    \A r, s \in Reqs :
        (r # s /\ req'[r] # req[r]) =>
            /\ req'[s] = req[s]
            /\ result'[s] = result[s]
            /\ reply'[s] = reply[s]

\* C10: requests are independent: a request is never blocked by another,
\* the result it answers from is the answer to its own gateway call, and
\* the step of one request changes nothing of another.
C10_Independent == [](NotBlocked /\ OwnResult) /\ [][OneRequestPerStep]_vars

\* one request is suspended on its gateway call while another, which got
\* a different answer, has been answered
C10_Witness ==
    /\ req[1].pc = "awaitResponse"
    /\ reply[1].kind = "text" /\ reply[1].text = ""
    /\ req[2].pc = "done"
    /\ req[2].res.status = 200
    /\ reply[2].text = "Thank you."

====
